---- MODULE Spec2Model ----
(***************************************************************************)
(* Model of package slices (server/util/slices/slices.go).                 *)
(*                                                                         *)
(* A Go slice is a descriptor (ptr, off, len, cap) over a backing array    *)
(* that lives in a heap, so that aliasing between the caller's slice and   *)
(* the slices a function builds is something the model can get wrong.      *)
(* The element type T is instantiated at int8: it is comparable and        *)
(* numeric, and its width is small enough for overflow to be reachable.    *)
(* Each exported function is one action (a call that runs to its return);  *)
(* Shuffle and the two functions that range over a map are split into      *)
(* steps, because their intermediate states and the order of the map's     *)
(* iteration are what the properties are about.                            *)
(***************************************************************************)
EXTENDS Integers, Sequences, FiniteSets, TLC

\* ------------------------------------------------------------ bounds
MaxLen == 3      \* longest caller slice drawn in Init
MaxElem == 3     \* elements are drawn from 1..MaxElem
MaxSlack == 1    \* spare capacity the allocator may add to a new array

\* the width of T = int8, one of the types of the numeric constraint
W == 8

Elem == 1..MaxElem
Zero == 0        \* the zero value of T

VARIABLES
    heap,     \* sequence of backing arrays; heap[1] is the caller's array
    S,        \* the caller's slice descriptor
    slack,    \* spare capacity of arrays allocated in this run
    pc,       \* "idle", "returned", "unique", "uniqueby", "sum", "shuffle"
    op,       \* name of the call in progress or last returned
    arg,      \* its arguments
    ret,      \* its result
    have,     \* Unique / UniqueBy: the auxiliary map
    todo,     \* Unique / UniqueBy: keys the range over the map has not visited
    res,      \* Unique / UniqueBy: the result slice being filled
    idx,      \* Sum: index of the next element the range loop visits
    acc,      \* Sum: the accumulator sum
    i,        \* Shuffle: loop variable
    orig,     \* Shuffle: contents of the slice when the call started
    choices,  \* Shuffle: values rand.Intn returned, in order
    steps     \* Shuffle: number of swaps performed

vars == <<heap, S, slack, pc, op, arg, ret, have, todo, res, idx, acc, i, orig, choices, steps>>

\* ------------------------------------------------------------ Go slices
NilSlice == [ptr |-> 0, off |-> 0, len |-> 0, cap |-> 0]

\* s[k], k counted from 0
At(h, s, k) == h[s.ptr][s.off + k + 1]

\* the elements a slice shows, as a sequence
Contents(h, s) == [k \in 1..s.len |-> h[s.ptr][s.off + k]]

\* s[:hi] is legal iff 0 <= hi <= cap(s); s[lo:] is legal iff 0 <= lo <= len(s)
CanSliceHigh(s, hi) == 0 <= hi /\ hi <= s.cap
CanSliceLow(s, lo) == 0 <= lo /\ lo <= s.len
SliceHigh(s, hi) == [s EXCEPT !.len = hi]
SliceLow(s, lo) == [s EXCEPT !.off = s.off + lo, !.len = s.len - lo, !.cap = s.cap - lo]

Max2(a, b) == IF a >= b THEN a ELSE b

\* make([]T, n): a new array of n zero values
Make(h, n) ==
    [heap  |-> Append(h, [k \in 1..n |-> Zero]),
     slice |-> [ptr |-> Len(h) + 1, off |-> 0, len |-> n, cap |-> n]]

\* append(s, elems...): in place when the capacity suffices, else into a new
\* array of at least double the capacity; sl is the allocator's rounding.
GoAppend(h, s, elems, sl) ==
    LET n == s.len + Len(elems) IN
    IF Len(elems) = 0 THEN [heap |-> h, slice |-> s]
    ELSE IF n <= s.cap THEN
        [heap  |-> [h EXCEPT ![s.ptr] =
                       [k \in 1..Len(@) |->
                           IF k - s.off - s.len \in 1..Len(elems)
                           THEN elems[k - s.off - s.len] ELSE @[k]]],
         slice |-> [s EXCEPT !.len = n]]
    ELSE
        LET newcap == Max2(n, 2 * s.cap) + sl
            old == IF s.ptr = 0 THEN <<>> ELSE Contents(h, s)
        IN [heap  |-> Append(h, [k \in 1..newcap |->
                                    IF k <= s.len THEN old[k]
                                    ELSE IF k <= n THEN elems[k - s.len]
                                    ELSE Zero]),
            slice |-> [ptr |-> Len(h) + 1, off |-> 0, len |-> n, cap |-> newcap]]

\* a mutant of copy: returns its argument, sharing the caller's array
copyAlias(h, slice, sl) == [heap |-> h, slice |-> slice]

\* func copy: append([]T(nil), slice...)
copy(h, slice, sl) == GoAppend(h, NilSlice, Contents(h, slice), sl)

\* ------------------------------------------------------------ Remove, RemoveAt
\* a mutant of line 15: append(slice[:i], slice[i:]...), which drops nothing
RemoveFoundOffByOne(h, s, k, sl) ==
    GoAppend(h, SliceHigh(s, k), Contents(h, SliceLow(s, k)), sl)

\* line 15: append(slice[:i], slice[i+1:]...)
RemoveFound(h, s, k, sl) ==
    GoAppend(h, SliceHigh(s, k), Contents(h, SliceLow(s, k + 1)), sl)

RECURSIVE RemoveLoop(_, _, _, _, _)
RemoveLoop(h, s, item, k, sl) ==
    IF k >= s.len THEN [heap |-> h, slice |-> s]
    ELSE IF At(h, s, k) = item THEN RemoveFound(h, s, k, sl)
    ELSE RemoveLoop(h, s, item, k + 1, sl)

Remove(h, slice, item, sl) ==
    LET c == copy(h, slice, sl) IN RemoveLoop(c.heap, c.slice, item, 0, sl)

\* a mutant of RemoveAt: an index out of range returns the copy untouched
RemoveAtGuarded(h, slice, index, sl) ==
    LET c == copy(h, slice, sl) IN
    IF index < 0 \/ index >= c.slice.len
    THEN [heap |-> c.heap, slice |-> c.slice, panic |-> FALSE]
    ELSE LET r == GoAppend(c.heap, SliceHigh(c.slice, index),
                           Contents(c.heap, SliceLow(c.slice, index + 1)), sl)
         IN [heap |-> r.heap, slice |-> r.slice, panic |-> FALSE]

\* slice[:index] and slice[index+1:] are bounds-checked by the runtime
RemoveAt(h, slice, index, sl) ==
    LET c == copy(h, slice, sl) IN
    IF ~CanSliceHigh(c.slice, index) \/ ~CanSliceLow(c.slice, index + 1)
    THEN [heap |-> c.heap, slice |-> NilSlice, panic |-> TRUE]
    ELSE LET r == GoAppend(c.heap, SliceHigh(c.slice, index),
                           Contents(c.heap, SliceLow(c.slice, index + 1)), sl)
         IN [heap |-> r.heap, slice |-> r.slice, panic |-> FALSE]

\* ------------------------------------------------------------ Filter, Map
RECURSIVE FilterLoop(_, _, _, _, _, _)
FilterLoop(h, s, f, k, result, sl) ==
    IF k >= s.len THEN [heap |-> h, slice |-> result]
    ELSE IF f[At(h, s, k)]
         THEN LET r == GoAppend(h, result, <<At(h, s, k)>>, sl)
              IN FilterLoop(r.heap, s, f, k + 1, r.slice, sl)
         ELSE FilterLoop(h, s, f, k + 1, result, sl)

Filter(h, slice, f, sl) == FilterLoop(h, slice, f, 0, NilSlice, sl)

RECURSIVE MapLoop(_, _, _, _, _, _)
MapLoop(h, s, f, k, result, sl) ==
    IF k >= s.len THEN [heap |-> h, slice |-> result]
    ELSE LET r == GoAppend(h, result, <<f[At(h, s, k)]>>, sl)
         IN MapLoop(r.heap, s, f, k + 1, r.slice, sl)

Map(h, slice, f, sl) == MapLoop(h, slice, f, 0, NilSlice, sl)

\* ------------------------------------------------------------ Contains, IndexOf
RECURSIVE IndexOfLoop(_, _, _, _)
IndexOfLoop(h, s, item, k) ==
    IF k >= s.len THEN -1
    ELSE IF At(h, s, k) = item THEN k
    ELSE IndexOfLoop(h, s, item, k + 1)

IndexOf(h, slice, item) == IndexOfLoop(h, slice, item, 0)

RECURSIVE ContainsLoop(_, _, _, _)
ContainsLoop(h, s, item, k) ==
    IF k >= s.len THEN FALSE
    ELSE IF At(h, s, k) = item THEN TRUE
    ELSE ContainsLoop(h, s, item, k + 1)

Contains(h, slice, item) == ContainsLoop(h, slice, item, 0)

\* ------------------------------------------------------------ numeric
\* arithmetic of T = int8: results wrap to W bits, two's complement
Wrap(x) == ((x + 2^(W - 1)) % 2^W) - 2^(W - 1)

Abs(x) == IF x < 0 THEN -x ELSE x

\* Go's integer quotient truncates toward zero; b # 0
GoDiv(a, b) ==
    IF (a < 0) = (b < 0) THEN Abs(a) \div Abs(b) ELSE -(Abs(a) \div Abs(b))

RECURSIVE MaxLoop(_, _, _, _)
MaxLoop(h, s, k, max) ==
    IF k >= s.len THEN max
    ELSE MaxLoop(h, s, k + 1, IF At(h, s, k) > max THEN At(h, s, k) ELSE max)

Max(h, slice) == IF slice.len = 0 THEN 0 ELSE MaxLoop(h, slice, 0, At(h, slice, 0))

RECURSIVE MinLoop(_, _, _, _)
MinLoop(h, s, k, min) ==
    IF k >= s.len THEN min
    ELSE MinLoop(h, s, k + 1, IF At(h, s, k) < min THEN At(h, s, k) ELSE min)

Min(h, slice) == IF slice.len = 0 THEN 0 ELSE MinLoop(h, slice, 0, At(h, slice, 0))

\* line 112: sum += v
SumAdd(sum, v) == Wrap(sum + v)

\* line 120: sum / T(len(slice)); the conversion T(len) wraps like any other
\* conversion to T, and the quotient of the two T values is a T
AverageOf(sum, n) ==
    LET d == Wrap(n) IN
    IF d = 0 THEN [panic |-> TRUE, val |-> 0]
    ELSE [panic |-> FALSE, val |-> Wrap(GoDiv(sum, d))]

\* ------------------------------------------------------------ Reduce, Some, Every
RECURSIVE ReduceLoop(_, _, _, _, _)
ReduceLoop(h, s, f, k, result) ==
    IF k >= s.len THEN result
    ELSE ReduceLoop(h, s, f, k + 1, f[<<result, At(h, s, k)>>])

Reduce(h, slice, initial, f) == ReduceLoop(h, slice, f, 0, initial)

RECURSIVE SomeLoop(_, _, _, _)
SomeLoop(h, s, f, k) ==
    IF k >= s.len THEN FALSE
    ELSE IF f[At(h, s, k)] THEN TRUE
    ELSE SomeLoop(h, s, f, k + 1)

Some(h, slice, f) == SomeLoop(h, slice, f, 0)

RECURSIVE EveryLoop(_, _, _, _)
EveryLoop(h, s, f, k) ==
    IF k >= s.len THEN TRUE
    ELSE IF ~f[At(h, s, k)] THEN FALSE
    ELSE EveryLoop(h, s, f, k + 1)

Every(h, slice, f) == EveryLoop(h, slice, f, 0)

\* ------------------------------------------------------------ Go maps
EmptyMap == <<>>
MapHas(m, k) == k \in DOMAIN m
MapPut(m, k, v) == [x \in DOMAIN m \cup {k} |-> IF x = k THEN v ELSE m[x]]

\* slice[k] = v
SetAt(h, s, k, v) == [h EXCEPT ![s.ptr][s.off + k + 1] = v]

\* ------------------------------------------------------------ Unique, UniqueBy
\* a mutant of Unique's first loop: no "ok" test, every element takes a new slot
RECURSIVE UniqueScanAllLoop(_, _, _, _, _)
UniqueScanAllLoop(h, s, k, hv, n) ==
    IF k >= s.len THEN [have |-> hv, i |-> n]
    ELSE UniqueScanAllLoop(h, s, k + 1, MapPut(hv, At(h, s, k), n), n + 1)

UniqueScanAll(h, s) == UniqueScanAllLoop(h, s, 0, EmptyMap, 0)

\* lines 126-133: have[v] = i for the first occurrence of each v
RECURSIVE UniqueScanLoop(_, _, _, _, _)
UniqueScanLoop(h, s, k, hv, n) ==
    IF k >= s.len THEN [have |-> hv, i |-> n]
    ELSE IF ~MapHas(hv, At(h, s, k))
         THEN UniqueScanLoop(h, s, k + 1, MapPut(hv, At(h, s, k), n), n + 1)
         ELSE UniqueScanLoop(h, s, k + 1, hv, n)

UniqueScan(h, s) == UniqueScanLoop(h, s, 0, EmptyMap, 0)

\* a mutant of UniqueBy's first loop: a later element with a key already seen
\* replaces the stored value (the slot is kept)
RECURSIVE UniqueByScanLastLoop(_, _, _, _, _, _)
UniqueByScanLastLoop(h, s, f, k, hv, n) ==
    IF k >= s.len THEN [have |-> hv, i |-> n]
    ELSE LET v == At(h, s, k)
             unique == f[v]
         IN IF ~MapHas(hv, unique)
            THEN UniqueByScanLastLoop(h, s, f, k + 1,
                     MapPut(hv, unique, [index |-> n, value |-> v]), n + 1)
            ELSE UniqueByScanLastLoop(h, s, f, k + 1,
                     MapPut(hv, unique, [index |-> hv[unique].index, value |-> v]), n)

UniqueByScanLast(h, s, f) == UniqueByScanLastLoop(h, s, f, 0, EmptyMap, 0)

\* lines 150-159: have[f(v)] = uniquePair{i, v} for the first v of each key
RECURSIVE UniqueByScanLoop(_, _, _, _, _, _)
UniqueByScanLoop(h, s, f, k, hv, n) ==
    IF k >= s.len THEN [have |-> hv, i |-> n]
    ELSE LET v == At(h, s, k)
             unique == f[v]
         IN IF ~MapHas(hv, unique)
            THEN UniqueByScanLoop(h, s, f, k + 1,
                     MapPut(hv, unique, [index |-> n, value |-> v]), n + 1)
            ELSE UniqueByScanLoop(h, s, f, k + 1, hv, n)

UniqueByScan(h, s, f) == UniqueByScanLoop(h, s, f, 0, EmptyMap, 0)

\* ------------------------------------------------------------ Associate*
\* a mutant of Associate: the guard "if i >= len(values) break" is missing,
\* so values[i] is read out of range
RECURSIVE AssociateUnguardedLoop(_, _, _, _, _)
AssociateUnguardedLoop(h, keys, values, k, result) ==
    IF k >= keys.len THEN [panic |-> FALSE, m |-> result]
    ELSE IF k >= Len(values) THEN [panic |-> TRUE, m |-> EmptyMap]
    ELSE AssociateUnguardedLoop(h, keys, values, k + 1,
                                MapPut(result, At(h, keys, k), values[k + 1]))

AssociateUnguarded(h, keys, values) == AssociateUnguardedLoop(h, keys, values, 0, EmptyMap)

\* values is given as the sequence of its elements: values[i] is values[i + 1] here
RECURSIVE AssociateLoop(_, _, _, _, _)
AssociateLoop(h, keys, values, k, result) ==
    IF k >= keys.len THEN [panic |-> FALSE, m |-> result]
    ELSE IF k >= Len(values) THEN [panic |-> FALSE, m |-> result]
    ELSE AssociateLoop(h, keys, values, k + 1,
                       MapPut(result, At(h, keys, k), values[k + 1]))

Associate(h, keys, values) == AssociateLoop(h, keys, values, 0, EmptyMap)

RECURSIVE AssociateByLoop(_, _, _, _, _)
AssociateByLoop(h, keys, f, k, result) ==
    IF k >= keys.len THEN result
    ELSE AssociateByLoop(h, keys, f, k + 1,
                         MapPut(result, At(h, keys, k), f[At(h, keys, k)]))

AssociateBy(h, keys, valueGenerator) == AssociateByLoop(h, keys, valueGenerator, 0, EmptyMap)

RECURSIVE AssociateReverseByLoop(_, _, _, _, _)
AssociateReverseByLoop(h, values, f, k, result) ==
    IF k >= values.len THEN result
    ELSE AssociateReverseByLoop(h, values, f, k + 1,
                                MapPut(result, f[At(h, values, k)], At(h, values, k)))

AssociateReverseBy(h, values, keyGenerator) ==
    AssociateReverseByLoop(h, values, keyGenerator, 0, EmptyMap)

\* ------------------------------------------------------------ Intersperse*
\* []T{}: an empty slice that is not nil
EmptyLit(h) == Make(h, 0)

\* []T{values[0]}
FirstLit(h, values) ==
    [heap  |-> Append(h, <<At(h, values, 0)>>),
     slice |-> [ptr |-> Len(h) + 1, off |-> 0, len |-> 1, cap |-> 1]]

\* "for i, v := range values[1:]": i counts from 0 and v is values[i + 1]
RECURSIVE IntersperseLoop(_, _, _, _, _, _)
IntersperseLoop(h, values, separator, k, result, sl) ==
    IF k >= values.len - 1 THEN [heap |-> h, slice |-> result]
    ELSE LET r == GoAppend(h, result, <<separator, At(h, values, k + 1)>>, sl)
         IN IntersperseLoop(r.heap, values, separator, k + 1, r.slice, sl)

Intersperse(h, values, separator, sl) ==
    IF values.len = 0 THEN EmptyLit(h)
    ELSE LET r == FirstLit(h, values)
         IN IntersperseLoop(r.heap, values, separator, 0, r.slice, sl)

\* a mutant of IntersperseBy: the separator is made from v, the element after it
RECURSIVE IntersperseByNextLoop(_, _, _, _, _, _)
IntersperseByNextLoop(h, values, f, k, result, sl) ==
    IF k >= values.len - 1 THEN [heap |-> h, slice |-> result]
    ELSE LET r == GoAppend(h, result,
                           <<f[At(h, values, k + 1)], At(h, values, k + 1)>>, sl)
         IN IntersperseByNextLoop(r.heap, values, f, k + 1, r.slice, sl)

IntersperseByNext(h, values, separatorGenerator, sl) ==
    IF values.len = 0 THEN EmptyLit(h)
    ELSE LET r == FirstLit(h, values)
         IN IntersperseByNextLoop(r.heap, values, separatorGenerator, 0, r.slice, sl)

RECURSIVE IntersperseByLoop(_, _, _, _, _, _)
IntersperseByLoop(h, values, f, k, result, sl) ==
    IF k >= values.len - 1 THEN [heap |-> h, slice |-> result]
    ELSE LET r == GoAppend(h, result,
                           <<f[At(h, values, k)], At(h, values, k + 1)>>, sl)
         IN IntersperseByLoop(r.heap, values, f, k + 1, r.slice, sl)

IntersperseBy(h, values, separatorGenerator, sl) ==
    IF values.len = 0 THEN EmptyLit(h)
    ELSE LET r == FirstLit(h, values)
         IN IntersperseByLoop(r.heap, values, separatorGenerator, 0, r.slice, sl)

RECURSIVE IntersperseByIndexLoop(_, _, _, _, _, _)
IntersperseByIndexLoop(h, values, f, k, result, sl) ==
    IF k >= values.len - 1 THEN [heap |-> h, slice |-> result]
    ELSE LET r == GoAppend(h, result, <<f[k], At(h, values, k + 1)>>, sl)
         IN IntersperseByIndexLoop(r.heap, values, f, k + 1, r.slice, sl)

IntersperseByIndex(h, values, separatorGenerator, sl) ==
    IF values.len = 0 THEN EmptyLit(h)
    ELSE LET r == FirstLit(h, values)
         IN IntersperseByIndexLoop(r.heap, values, separatorGenerator, 0, r.slice, sl)

\* ------------------------------------------------------------ Shuffle
\* a mutant of the swap: slice[i] = slice[j] alone
SwapClobber(a, x, y) == [a EXCEPT ![x + 1] = a[y + 1]]

\* line 282 on a backing array: slice[i], slice[j] = slice[j], slice[i]
Swap(a, x, y) == [k \in 1..Len(a) |->
                     IF k = x + 1 THEN a[y + 1]
                     ELSE IF k = y + 1 THEN a[x + 1]
                     ELSE a[k]]

\* a mutant of line 281: j := rand.Intn(len(slice))
ShuffleChoiceNaive(n, k) == 0..(n - 1)

\* line 281: the values rand.Intn(i + 1) may return, for a slice of length n
ShuffleChoice(n, k) == 0..k

\* the choice sequences of a whole call on a slice of length n: one j for
\* each i = n-1, n-2, ..., 1
ChoiceSeqs(n) ==
    {c \in [1..Max2(n - 1, 0) -> 0..Max2(n - 1, 0)] :
        \A t \in 1..Max2(n - 1, 0) : c[t] \in ShuffleChoice(n, n - t)}

\* the loop of lines 280-283 run on array a with the choices cs, from i = k
RECURSIVE ShuffleFrom(_, _, _)
ShuffleFrom(a, k, cs) ==
    IF k > 0 THEN ShuffleFrom(Swap(a, k, cs[Len(a) - k]), k - 1, cs)
    ELSE a

ShuffleRun(a, cs) == ShuffleFrom(a, Len(a) - 1, cs)

\* ------------------------------------------------------------ inputs
\* all sequences over D of length at most n
SeqsUpTo(D, n) == UNION {[1..m -> D] : m \in 0..n}

Inputs == SeqsUpTo(Elem, MaxLen)

\* the functions callers pass, a few of each signature
Preds == {[x \in Elem |-> x % 2 = 1], [x \in Elem |-> x > 1], [x \in Elem |-> FALSE]}
MapFns == {[x \in Elem |-> x + 10], [x \in Elem |-> 1], [x \in Elem |-> MaxElem + 1 - x]}
KeyFns == {[x \in Elem |-> x % 2], [x \in Elem |-> x], [x \in Elem |-> 0]}
SepFns == {[x \in Elem |-> x + 10], [x \in Elem |-> -x]}
IdxFns == {[k \in 0..MaxLen |-> k + 10], [k \in 0..MaxLen |-> 0]}
AccRange == 0..(MaxLen * MaxElem)
ReduceFns == {[p \in AccRange \X Elem |-> IF p[1] + p[2] \in AccRange THEN p[1] + p[2] ELSE 0],
              [p \in AccRange \X Elem |-> p[2]]}
ValElem == {10, 20}
ValSeqs == SeqsUpTo(ValElem, MaxLen)

\* inputs of the numeric functions at T = int8: short slices over values at and
\* near the ends of the type, and slices whose length does not fit T
NumElem == {-(2^(W - 1)), -3, 0, 2, 2^(W - 1) - 1}
LongLens == {2^(W - 1), 2^W}
NumInputs ==
    SeqsUpTo(NumElem, MaxLen) \cup {[k \in 1..n |-> v] : n \in LongLens, v \in {0, 1}}

NoArg == [item |-> 0, index |-> 0, fn |-> <<>>, vals |-> <<>>, init |-> 0]
NoRet == [kind |-> "none", slice |-> NilSlice, val |-> 0, b |-> FALSE, m |-> EmptyMap]

\* ------------------------------------------------------------ initial states
\* the state after the caller has built its slice: nothing called yet
InitCommon ==
    /\ pc = "idle" /\ op = "none" /\ arg = NoArg /\ ret = NoRet
    /\ have = EmptyMap /\ todo = {} /\ res = NilSlice
    /\ idx = 0 /\ acc = 0
    /\ i = 0 /\ orig = <<>> /\ choices = <<>> /\ steps = 0

Init ==
    /\ slack \in 0..MaxSlack
    /\ \E a \in Inputs :
        /\ heap = <<[k \in 1..(Len(a) + slack) |-> IF k <= Len(a) THEN a[k] ELSE Zero]>>
        /\ S = [ptr |-> 1, off |-> 0, len |-> Len(a), cap |-> Len(a) + slack]
    /\ InitCommon

InitNum ==
    /\ slack = 0
    /\ \E a \in NumInputs :
        /\ heap = <<a>>
        /\ S = [ptr |-> 1, off |-> 0, len |-> Len(a), cap |-> Len(a)]
    /\ InitCommon

\* ------------------------------------------------------------ calls that return at once
Loop == <<have, todo, res, idx, acc, i, orig, choices, steps>>

RemoveCall ==
    /\ pc = "idle"
    /\ \E item \in Elem :
        LET r == Remove(heap, S, item, slack) IN
        /\ heap' = r.heap
        /\ arg' = [NoArg EXCEPT !.item = item]
        /\ ret' = [NoRet EXCEPT !.kind = "slice", !.slice = r.slice]
    /\ op' = "Remove" /\ pc' = "returned"
    /\ UNCHANGED <<S, slack, Loop>>

RemoveAtCall ==
    /\ pc = "idle"
    /\ \E index \in -1..(MaxLen + MaxSlack + 1) :
        LET r == RemoveAt(heap, S, index, slack) IN
        /\ heap' = r.heap
        /\ arg' = [NoArg EXCEPT !.index = index]
        /\ ret' = IF r.panic THEN [NoRet EXCEPT !.kind = "panic"]
                  ELSE [NoRet EXCEPT !.kind = "slice", !.slice = r.slice]
    /\ op' = "RemoveAt" /\ pc' = "returned"
    /\ UNCHANGED <<S, slack, Loop>>

FilterCall ==
    /\ pc = "idle"
    /\ \E f \in Preds :
        LET r == Filter(heap, S, f, slack) IN
        /\ heap' = r.heap
        /\ arg' = [NoArg EXCEPT !.fn = f]
        /\ ret' = [NoRet EXCEPT !.kind = "slice", !.slice = r.slice]
    /\ op' = "Filter" /\ pc' = "returned"
    /\ UNCHANGED <<S, slack, Loop>>

MapCall ==
    /\ pc = "idle"
    /\ \E f \in MapFns :
        LET r == Map(heap, S, f, slack) IN
        /\ heap' = r.heap
        /\ arg' = [NoArg EXCEPT !.fn = f]
        /\ ret' = [NoRet EXCEPT !.kind = "slice", !.slice = r.slice]
    /\ op' = "Map" /\ pc' = "returned"
    /\ UNCHANGED <<S, slack, Loop>>

ContainsCall ==
    /\ pc = "idle"
    /\ \E item \in Elem :
        /\ arg' = [NoArg EXCEPT !.item = item]
        /\ ret' = [NoRet EXCEPT !.kind = "bool", !.b = Contains(heap, S, item)]
    /\ op' = "Contains" /\ pc' = "returned"
    /\ UNCHANGED <<heap, S, slack, Loop>>

IndexOfCall ==
    /\ pc = "idle"
    /\ \E item \in Elem :
        /\ arg' = [NoArg EXCEPT !.item = item]
        /\ ret' = [NoRet EXCEPT !.kind = "num", !.val = IndexOf(heap, S, item)]
    /\ op' = "IndexOf" /\ pc' = "returned"
    /\ UNCHANGED <<heap, S, slack, Loop>>

MaxCall ==
    /\ pc = "idle"
    /\ ret' = [NoRet EXCEPT !.kind = "num", !.val = Max(heap, S)]
    /\ arg' = NoArg /\ op' = "Max" /\ pc' = "returned"
    /\ UNCHANGED <<heap, S, slack, Loop>>

MinCall ==
    /\ pc = "idle"
    /\ ret' = [NoRet EXCEPT !.kind = "num", !.val = Min(heap, S)]
    /\ arg' = NoArg /\ op' = "Min" /\ pc' = "returned"
    /\ UNCHANGED <<heap, S, slack, Loop>>

\* line 110: var sum T, and the range loop about to start
SumCall ==
    /\ pc = "idle"
    /\ idx' = 0 /\ acc' = 0
    /\ arg' = NoArg /\ op' = "Sum" /\ pc' = "sum"
    /\ UNCHANGED <<heap, S, slack, ret, have, todo, res, i, orig, choices, steps>>

\* line 120: Average calls Sum(slice) first
AverageCall ==
    /\ pc = "idle"
    /\ idx' = 0 /\ acc' = 0
    /\ arg' = NoArg /\ op' = "Average" /\ pc' = "sum"
    /\ UNCHANGED <<heap, S, slack, ret, have, todo, res, i, orig, choices, steps>>

\* lines 111-113, one iteration of "for _, v := range slice"
SumStep ==
    /\ pc = "sum" /\ idx < S.len
    /\ acc' = SumAdd(acc, At(heap, S, idx))
    /\ idx' = idx + 1
    /\ UNCHANGED <<heap, S, slack, pc, op, arg, ret, have, todo, res, i, orig, choices, steps>>

\* line 114, when Sum was what the caller called
SumReturn ==
    /\ pc = "sum" /\ idx >= S.len /\ op = "Sum"
    /\ ret' = [NoRet EXCEPT !.kind = "num", !.val = acc]
    /\ pc' = "returned"
    /\ UNCHANGED <<heap, S, slack, op, arg, Loop>>

\* line 120, once Sum has returned into Average
AverageReturn ==
    /\ pc = "sum" /\ idx >= S.len /\ op = "Average"
    /\ LET r == AverageOf(acc, S.len) IN
        ret' = IF r.panic THEN [NoRet EXCEPT !.kind = "panic"]
               ELSE [NoRet EXCEPT !.kind = "num", !.val = r.val]
    /\ pc' = "returned"
    /\ UNCHANGED <<heap, S, slack, op, arg, Loop>>

ReduceCall ==
    /\ pc = "idle"
    /\ \E f \in ReduceFns :
        /\ arg' = [NoArg EXCEPT !.fn = f]
        /\ ret' = [NoRet EXCEPT !.kind = "num", !.val = Reduce(heap, S, 0, f)]
    /\ op' = "Reduce" /\ pc' = "returned"
    /\ UNCHANGED <<heap, S, slack, Loop>>

SomeCall ==
    /\ pc = "idle"
    /\ \E f \in Preds :
        /\ arg' = [NoArg EXCEPT !.fn = f]
        /\ ret' = [NoRet EXCEPT !.kind = "bool", !.b = Some(heap, S, f)]
    /\ op' = "Some" /\ pc' = "returned"
    /\ UNCHANGED <<heap, S, slack, Loop>>

EveryCall ==
    /\ pc = "idle"
    /\ \E f \in Preds :
        /\ arg' = [NoArg EXCEPT !.fn = f]
        /\ ret' = [NoRet EXCEPT !.kind = "bool", !.b = Every(heap, S, f)]
    /\ op' = "Every" /\ pc' = "returned"
    /\ UNCHANGED <<heap, S, slack, Loop>>

AssociateCall ==
    /\ pc = "idle"
    /\ \E values \in ValSeqs :
        LET r == Associate(heap, S, values) IN
        /\ arg' = [NoArg EXCEPT !.vals = values]
        /\ ret' = IF r.panic THEN [NoRet EXCEPT !.kind = "panic"]
                  ELSE [NoRet EXCEPT !.kind = "map", !.m = r.m]
    /\ op' = "Associate" /\ pc' = "returned"
    /\ UNCHANGED <<heap, S, slack, Loop>>

AssociateByCall ==
    /\ pc = "idle"
    /\ \E f \in MapFns :
        /\ arg' = [NoArg EXCEPT !.fn = f]
        /\ ret' = [NoRet EXCEPT !.kind = "map", !.m = AssociateBy(heap, S, f)]
    /\ op' = "AssociateBy" /\ pc' = "returned"
    /\ UNCHANGED <<heap, S, slack, Loop>>

AssociateReverseByCall ==
    /\ pc = "idle"
    /\ \E f \in KeyFns :
        /\ arg' = [NoArg EXCEPT !.fn = f]
        /\ ret' = [NoRet EXCEPT !.kind = "map", !.m = AssociateReverseBy(heap, S, f)]
    /\ op' = "AssociateReverseBy" /\ pc' = "returned"
    /\ UNCHANGED <<heap, S, slack, Loop>>

IntersperseCall ==
    /\ pc = "idle"
    /\ \E separator \in {Zero, MaxElem + 1} :
        LET r == Intersperse(heap, S, separator, slack) IN
        /\ heap' = r.heap
        /\ arg' = [NoArg EXCEPT !.item = separator]
        /\ ret' = [NoRet EXCEPT !.kind = "slice", !.slice = r.slice]
    /\ op' = "Intersperse" /\ pc' = "returned"
    /\ UNCHANGED <<S, slack, Loop>>

IntersperseByCall ==
    /\ pc = "idle"
    /\ \E f \in SepFns :
        LET r == IntersperseBy(heap, S, f, slack) IN
        /\ heap' = r.heap
        /\ arg' = [NoArg EXCEPT !.fn = f]
        /\ ret' = [NoRet EXCEPT !.kind = "slice", !.slice = r.slice]
    /\ op' = "IntersperseBy" /\ pc' = "returned"
    /\ UNCHANGED <<S, slack, Loop>>

IntersperseByIndexCall ==
    /\ pc = "idle"
    /\ \E f \in IdxFns :
        LET r == IntersperseByIndex(heap, S, f, slack) IN
        /\ heap' = r.heap
        /\ arg' = [NoArg EXCEPT !.fn = f]
        /\ ret' = [NoRet EXCEPT !.kind = "slice", !.slice = r.slice]
    /\ op' = "IntersperseByIndex" /\ pc' = "returned"
    /\ UNCHANGED <<S, slack, Loop>>

\* ------------------------------------------------------------ Unique, step by step
\* lines 126-134: the first loop and make([]T, i)
UniqueCall ==
    /\ pc = "idle"
    /\ LET sc == UniqueScan(heap, S)
           mk == Make(heap, sc.i)
       IN /\ have' = sc.have
          /\ todo' = DOMAIN sc.have
          /\ heap' = mk.heap
          /\ res' = mk.slice
    /\ arg' = NoArg /\ op' = "Unique" /\ pc' = "unique"
    /\ UNCHANGED <<S, slack, ret, idx, acc, i, orig, choices, steps>>

\* lines 135-137: one iteration of "for k := range have", in any order
UniqueIter ==
    /\ pc = "unique"
    /\ \E k \in todo :
        /\ todo' = todo \ {k}
        /\ IF have[k] < 0 \/ have[k] >= res.len
           THEN /\ ret' = [NoRet EXCEPT !.kind = "panic"]
                /\ pc' = "returned"
                /\ heap' = heap
           ELSE /\ heap' = SetAt(heap, res, have[k], k)
                /\ UNCHANGED <<ret, pc>>
    /\ UNCHANGED <<S, slack, op, arg, have, res, idx, acc, i, orig, choices, steps>>

\* line 138
UniqueReturn ==
    /\ pc = "unique" /\ todo = {}
    /\ ret' = [NoRet EXCEPT !.kind = "slice", !.slice = res]
    /\ pc' = "returned"
    /\ UNCHANGED <<heap, S, slack, op, arg, Loop>>

\* lines 150-160
UniqueByCall ==
    /\ pc = "idle"
    /\ \E f \in KeyFns :
        LET sc == UniqueByScan(heap, S, f)
            mk == Make(heap, sc.i)
        IN /\ have' = sc.have
           /\ todo' = DOMAIN sc.have
           /\ heap' = mk.heap
           /\ res' = mk.slice
           /\ arg' = [NoArg EXCEPT !.fn = f]
    /\ op' = "UniqueBy" /\ pc' = "uniqueby"
    /\ UNCHANGED <<S, slack, ret, idx, acc, i, orig, choices, steps>>

\* lines 161-163: one iteration of "for _, p := range have", in any order
UniqueByIter ==
    /\ pc = "uniqueby"
    /\ \E k \in todo :
        LET p == have[k] IN
        /\ todo' = todo \ {k}
        /\ IF p.index < 0 \/ p.index >= res.len
           THEN /\ ret' = [NoRet EXCEPT !.kind = "panic"]
                /\ pc' = "returned"
                /\ heap' = heap
           ELSE /\ heap' = SetAt(heap, res, p.index, p.value)
                /\ UNCHANGED <<ret, pc>>
    /\ UNCHANGED <<S, slack, op, arg, have, res, idx, acc, i, orig, choices, steps>>

\* line 164
UniqueByReturn ==
    /\ pc = "uniqueby" /\ todo = {}
    /\ ret' = [NoRet EXCEPT !.kind = "slice", !.slice = res]
    /\ pc' = "returned"
    /\ UNCHANGED <<heap, S, slack, op, arg, Loop>>

\* ------------------------------------------------------------ Shuffle, step by step
\* line 280, the loop's initialisation: i := len(slice) - 1
ShuffleCall ==
    /\ pc = "idle"
    /\ i' = S.len - 1
    /\ orig' = Contents(heap, S)
    /\ choices' = <<>> /\ steps' = 0
    /\ arg' = NoArg /\ op' = "Shuffle" /\ pc' = "shuffle"
    /\ UNCHANGED <<heap, S, slack, ret, have, todo, res, idx, acc>>

\* lines 280-283, one iteration: i > 0, j := rand.Intn(i + 1), swap, i--
ShuffleStep ==
    /\ pc = "shuffle" /\ i > 0
    /\ \E j \in ShuffleChoice(S.len, i) :
        /\ choices' = Append(choices, j)
        /\ IF i >= S.len \/ j < 0 \/ j >= S.len
           THEN /\ ret' = [NoRet EXCEPT !.kind = "panic"]
                /\ pc' = "returned"
                /\ UNCHANGED <<heap, i, steps>>
           ELSE /\ heap' = [heap EXCEPT ![S.ptr] = Swap(@, S.off + i, S.off + j)]
                /\ i' = i - 1
                /\ steps' = steps + 1
                /\ UNCHANGED <<ret, pc>>
    /\ UNCHANGED <<S, slack, op, arg, have, todo, res, idx, acc, orig>>

\* line 280, the loop's exit: i > 0 is false
ShuffleReturn ==
    /\ pc = "shuffle" /\ i <= 0
    /\ ret' = [NoRet EXCEPT !.kind = "void"]
    /\ pc' = "returned"
    /\ UNCHANGED <<heap, S, slack, op, arg, Loop>>

\* ------------------------------------------------------------ the caller
\* the caller drops the result of the last call; the arrays it used are garbage
Discard ==
    /\ pc = "returned"
    /\ heap' = <<heap[1]>>
    /\ pc' = "idle" /\ op' = "none" /\ arg' = NoArg /\ ret' = NoRet
    /\ have' = EmptyMap /\ todo' = {} /\ res' = NilSlice
    /\ idx' = 0 /\ acc' = 0
    /\ i' = 0 /\ orig' = <<>> /\ choices' = <<>> /\ steps' = 0
    /\ UNCHANGED <<S, slack>>

Next ==
    \/ RemoveCall
    \/ RemoveAtCall
    \/ FilterCall
    \/ MapCall
    \/ ContainsCall
    \/ IndexOfCall
    \/ MaxCall
    \/ MinCall
    \/ SumCall
    \/ AverageCall
    \/ SumStep
    \/ SumReturn
    \/ AverageReturn
    \/ UniqueCall
    \/ UniqueIter
    \/ UniqueReturn
    \/ UniqueByCall
    \/ UniqueByIter
    \/ UniqueByReturn
    \/ ReduceCall
    \/ SomeCall
    \/ EveryCall
    \/ AssociateCall
    \/ AssociateByCall
    \/ AssociateReverseByCall
    \/ IntersperseCall
    \/ IntersperseByCall
    \/ IntersperseByIndexCall
    \/ ShuffleCall
    \/ ShuffleStep
    \/ ShuffleReturn
    \/ Discard

Spec == Init /\ [][Next]_vars

\* Sum and Average alone, on the inputs of InitNum
NextNum ==
    \/ SumCall
    \/ AverageCall
    \/ SumStep
    \/ SumReturn
    \/ AverageReturn
    \/ Discard

SpecNum == InitNum /\ [][NextNum]_vars

\* ------------------------------------------------------------ properties
\* what the caller sees through its slice, and what the last call returned
View == Contents(heap, S)
Result == Contents(heap, ret.slice)
Returned(o) == pc = "returned" /\ op = o

Range(a) == {a[k] : k \in DOMAIN a}
Distinct(a) == \A x, y \in DOMAIN a : a[x] = a[y] => x = y
Count(a, v) == Cardinality({k \in DOMAIN a : a[k] = v})
SameMultiset(a, b) ==
    /\ Len(a) = Len(b)
    /\ \A v \in Range(a) \cup Range(b) : Count(a, v) = Count(b, v)

\* the lowest index of a at which v stands (v occurs in a)
FirstIdx(a, v) == CHOOSE k \in DOMAIN a : a[k] = v /\ \A j \in 1..(k - 1) : a[j] # v

\* the t-th smallest member of a set of indices
Nth(K, t) == CHOOSE k \in K : Cardinality({j \in K : j < k}) = t - 1

\* the subsequence of a at the indices K
Pick(a, K) == [t \in 1..Cardinality(K) |-> a[Nth(K, t)]]

Min2(a, b) == IF a <= b THEN a ELSE b

\* C1: a step of any operation other than Shuffle leaves the caller's slice
\* as it was: same descriptor, same length, same element at every index.
C1_CallerSliceUnchanged ==
    [][op' # "Shuffle" => (S' = S /\ Contents(heap', S') = Contents(heap, S))]_vars

\* Remove has returned after shifting elements down inside its working array
C1_Witness ==
    /\ Returned("Remove")
    /\ S.len >= 2
    /\ View[1] = arg.item
    /\ ret.slice.len = S.len - 1

C3_UniqueByFirstOfKey ==
    Returned("UniqueBy") =>
        LET f == arg.fn
            K == {k \in DOMAIN View : \A j \in 1..(k - 1) : f[View[j]] # f[View[k]]}
        IN /\ ret.kind = "slice"
           /\ Result = Pick(View, K)
           /\ Len(Result) = Cardinality({f[View[k]] : k \in DOMAIN View})

\* UniqueBy has returned on an input where two different elements share a key
C3_Witness ==
    /\ Returned("UniqueBy")
    /\ \E j, k \in DOMAIN View :
          j < k /\ View[j] # View[k] /\ arg.fn[View[j]] = arg.fn[View[k]]
    /\ ret.slice.len >= 2

\* C4: Remove deletes the first occurrence of the item and nothing else; when
\* the item is absent the result equals the input.
C4_RemoveFirstOccurrence ==
    Returned("Remove") =>
        /\ ret.kind = "slice"
        /\ IF arg.item \in Range(View)
           THEN LET k0 == FirstIdx(View, arg.item) IN
                /\ Len(Result) = Len(View) - 1
                /\ Result = [t \in 1..(Len(View) - 1) |->
                                IF t < k0 THEN View[t] ELSE View[t + 1]]
           ELSE Result = View

\* Remove has returned on an input that holds the item twice
C4_Witness ==
    /\ Returned("Remove")
    /\ Count(View, arg.item) = 2
    /\ Count(Result, arg.item) = 1

\* C5: RemoveAt panics for every index outside [0, len), and for an index
\* inside it returns the input without the element at that index.
C5_RemoveAtRange ==
    Returned("RemoveAt") =>
        IF arg.index < 0 \/ arg.index >= S.len
        THEN ret.kind = "panic"
        ELSE /\ ret.kind = "slice"
             /\ Len(Result) = S.len - 1
             /\ Result = SubSeq(View, 1, arg.index) \o SubSeq(View, arg.index + 2, S.len)

\* RemoveAt has panicked at index == len although the copy has room beyond len
C5_Witness ==
    /\ Returned("RemoveAt")
    /\ S.len >= 1 /\ slack >= 1
    /\ arg.index = S.len
    /\ ret.kind = "panic"

\* C6: Associate never panics; its keys are the keys at the indices both
\* slices have, and each maps to the value at the last such index holding it.
C6_AssociateLastWins ==
    Returned("Associate") =>
        LET n == Min2(S.len, Len(arg.vals)) IN
        /\ ret.kind = "map"
        /\ DOMAIN ret.m = {View[k] : k \in 1..n}
        /\ \A key \in DOMAIN ret.m :
              \E j \in 1..n :
                  /\ View[j] = key
                  /\ \A l \in (j + 1)..n : View[l] # key
                  /\ ret.m[key] = arg.vals[j]

\* Associate has returned with a key written twice and a key skipped
C6_Witness ==
    /\ Returned("Associate")
    /\ S.len = 3 /\ Len(arg.vals) = 2
    /\ View[1] = View[2] /\ View[3] # View[1]
    /\ arg.vals[1] # arg.vals[2]
    /\ ret.kind = "map"

\* C7: IntersperseBy returns the elements at the even positions and, between
\* them, the separator made from the element before it.
C7_IntersperseByPreceding ==
    Returned("IntersperseBy") =>
        LET n == S.len IN
        /\ ret.kind = "slice"
        /\ IF n = 0 THEN Len(Result) = 0
           ELSE /\ Len(Result) = 2 * n - 1
                /\ \A k \in 0..(n - 1) : Result[2 * k + 1] = View[k + 1]
                /\ \A k \in 0..(n - 2) : Result[2 * k + 2] = arg.fn[View[k + 1]]

\* IntersperseBy has returned where the elements around a separator differ
C7_Witness ==
    /\ Returned("IntersperseBy")
    /\ S.len = 3
    /\ arg.fn[View[1]] # arg.fn[View[2]]
    /\ arg.fn[View[2]] # arg.fn[View[3]]
    /\ ret.slice.len = 5

\* C8: Shuffle never indexes out of range, keeps the length and the multiset
\* of the slice at every step, has always done max(n-1,0) - max(i,0) swaps,
\* can always take its next step, and returns after exactly max(n-1,0) swaps.
C8_ShuffleSteps ==
    op = "Shuffle" =>
        LET n == Len(orig) IN
        /\ ret.kind # "panic"
        /\ S.len = n
        /\ SameMultiset(View, orig)
        /\ Len(choices) = steps
        /\ steps = Max2(n - 1, 0) - Max2(i, 0)
        /\ pc = "shuffle" => ENABLED (ShuffleStep \/ ShuffleReturn)
        /\ pc = "returned" => steps = Max2(n - 1, 0)

\* Shuffle has returned, having rearranged a slice that holds a duplicate
C8_Witness ==
    /\ Returned("Shuffle")
    /\ Len(orig) = 3 /\ ~Distinct(orig)
    /\ View # orig
    /\ steps = 2

\* the arrangements of a sequence
Perms(a) == {[k \in DOMAIN a |-> a[p[k]]] : p \in Permutations(DOMAIN a)}

\* C10: on pairwise-distinct elements, the choices made determine the final
\* arrangement one to one, and every permutation of the input is the
\* arrangement of some choice sequence.
C10_ShuffleBijection ==
    (Returned("Shuffle") /\ Distinct(orig)) =>
        LET n == Len(orig) IN
        /\ choices \in ChoiceSeqs(n)
        /\ View = ShuffleRun(orig, choices)
        /\ \A c \in ChoiceSeqs(n) : ShuffleRun(orig, c) = View => c = choices
        /\ \A p \in Perms(orig) : \E c \in ChoiceSeqs(n) : ShuffleRun(orig, c) = p
        /\ View \in Perms(orig)

\* Shuffle has returned the reverse of three distinct elements
C10_Witness ==
    /\ Returned("Shuffle")
    /\ Len(orig) = 3 /\ Distinct(orig)
    /\ View = <<orig[3], orig[2], orig[1]>>

\* C9: Average panics on the empty slice, and on every other slice returns
\* Sum(S) (the value its call of Sum left in acc) divided by len(S),
\* truncated toward zero.
C9_AverageOfEverySlice ==
    Returned("Average") =>
        IF S.len = 0 THEN ret.kind = "panic"
        ELSE /\ ret.kind = "num"
             /\ ret.val = GoDiv(acc, S.len)

\* the same for the slices whose length T can hold
C9_AverageWhenLenFits ==
    (Returned("Average") /\ S.len < 2^(W - 1)) =>
        IF S.len = 0 THEN ret.kind = "panic"
        ELSE /\ ret.kind = "num"
             /\ ret.val = GoDiv(acc, S.len)

\* Average has returned a quotient that truncation and flooring tell apart
C9_Witness ==
    /\ Returned("Average")
    /\ S.len = 2
    /\ acc = -3
    /\ ret.kind = "num" /\ ret.val = -1

====
